---- MODULE Spec2Model ----
(***************************************************************************)
(* A model of llvm/lib/Target/SPIRV/SPIRVSubtarget.cpp: the construction   *)
(* of a SPIRVSubtarget (pointer size, SPIR-V and OpenCL versions, the set  *)
(* of available extensions and of available extended instruction sets)     *)
(* and the const queries answered from it.                                 *)
(*                                                                         *)
(* The constructor is one straight-line sequence; pc names the step that   *)
(* was completed last, in the order of the member initializer list and of  *)
(* the constructor body.                                                   *)
(***************************************************************************)
EXTENDS Naturals, Sequences, FiniteSets

\* Longest spirv-extensions list explored (cl::ZeroOrMore: any length).
MaxExtList == 2

----------------------------------------------------------------------------
(* Value domains *)

\* Triple::ArchType values for which TT.isSPIRV() holds (the assert of
\* computePointerSize): spirv is the logical variant.
Archs == {"spirv", "spirv32", "spirv64"}

\* The two environment families a triple selects.
EnvFamilies == {"OpenCL", "Other"}

Triples == [arch : Archs, env : EnvFamilies]

\* SPIRV::Extension::Extension values the file names.
SPV_AMD_shader_trinary_minmax_extension == "SPV_AMD_shader_trinary_minmax_extension"

\* The values the spirv-extensions option accepts (cl::values).
ExtensionsValues ==
    {"SPV_INTEL_arbitrary_precision_integers",
     "SPV_INTEL_optnone",
     "SPV_KHR_no_integer_wrap_decoration"}

ExtensionIds == ExtensionsValues \cup {SPV_AMD_shader_trinary_minmax_extension}

\* SPIRV::InstructionSet::InstructionSet values the file names.
InstructionSetIds == {"GLSL_std_450", "OpenCL_std", "SPV_AMD_shader_trinary_minmax"}

\* Versions a feature string can request (0: none requested), and the
\* versions queries compare against.
SPIRVVersionRequests == {0, 10, 13, 14, 15}
OpenCLVersionRequests == {0, 20, 30}
VersionArgs == {0, 13, 14, 15, 22, 23}

\* What the storage of a scalar member may hold before its initializer ran.
Indeterminate == {0, 7}

\* What the storage of the TargetTriple member may hold before TargetTriple(TT).
IndeterminateTriples == {[arch |-> "spirv", env |-> e] : e \in EnvFamilies}

\* Lists of at most n elements of S.
SeqsUpTo(S, n) == UNION {[1..k -> S] : k \in 0..n}

Collaborators ==
    {"FrameLowering", "TLInfo", "GR", "CallLoweringInfo", "Legalizer",
     "RegBankInfo", "InstSelector"}

NoQuery == [name |-> "none", ver |-> 0, id |-> "", ret |-> FALSE, size |-> 0]

----------------------------------------------------------------------------
VARIABLES
    pc,                   \* the constructor step completed last
    TT,                   \* constructor argument: the triple
    FS,                   \* constructor argument: the versions the feature string requests
    Extensions,           \* the process-wide spirv-extensions list
    PointerSize,
    SPIRVVersion,
    OpenCLVersion,
    TargetTriple,
    AvailableExtensions,
    AvailableExtInstSets,
    built,                \* collaborators constructed so far
    handed,               \* collaborators that were passed a reference to the subtarget
    lastQuery,            \* the last query answered, with its result
    atEntry               \* the two sets as the last init* call found them

vars == <<pc, TT, FS, Extensions, PointerSize, SPIRVVersion, OpenCLVersion,
          TargetTriple, AvailableExtensions, AvailableExtInstSets, built,
          handed, lastQuery, atEntry>>

\* The five fields of the capability snapshot.
snapshot == <<PointerSize, SPIRVVersion, OpenCLVersion, AvailableExtensions,
              AvailableExtInstSets>>

inputs == <<TT, FS, Extensions>>

----------------------------------------------------------------------------
(* Pure functions *)

isAtLeastVer_Strict(Target, VerToCompareTo) ==
    Target = 0 \/ Target > VerToCompareTo

\* Compare version numbers, but allow 0 to mean unspecified.
isAtLeastVer(Target, VerToCompareTo) ==
    Target = 0 \/ Target >= VerToCompareTo

computePointerSize_NotSpirv32(T) ==
    IF T.arch # "spirv32" THEN 64 ELSE 32

computePointerSize(T) ==
    IF T.arch = "spirv64" THEN 64 ELSE 32

\* initSubtargetDependencies, the SPIR-V version left as parsed.
DefaultedSPIRVVersion_Unchanged(v) == v

\* initSubtargetDependencies: if (SPIRVVersion == 0) SPIRVVersion = 14;
DefaultedSPIRVVersion(v) == IF v = 0 THEN 14 ELSE v

\* initSubtargetDependencies: if (OpenCLVersion == 0) OpenCLVersion = 22;
DefaultedOpenCLVersion(v) == IF v = 0 THEN 22 ELSE v

\* ParseSubtargetFeatures (generated code): the version fields become the
\* version the feature string requests, or stay 0 when it requests none.
ParsedSPIRVVersion(fs) == fs.spirv
ParsedOpenCLVersion(fs) == fs.opencl

\* isOpenCLEnv (declared in the header): the environment family of the
\* stored triple.
isOpenCLEnv == TargetTriple.env = "OpenCL"

\* for (auto Extension : Extensions) AvailableExtensions.insert(Extension);
RECURSIVE InsertAll(_, _)
InsertAll(set, list) ==
    IF list = <<>> THEN set
    ELSE InsertAll(set \cup {Head(list)}, Tail(list))

\* initAvailableExtensions without the clear().
initAvailableExtensions_NoClear(prior, list) ==
    IF ~isOpenCLEnv THEN prior ELSE InsertAll(prior, list)

\* initAvailableExtensions: the set it leaves, given the set it finds.
initAvailableExtensions(prior, list) ==
    LET cleared == {}
    IN  IF ~isOpenCLEnv THEN cleared ELSE InsertAll(cleared, list)

canUseExtension(E) == E \in AvailableExtensions

canUseExtInstSet(E) == E \in AvailableExtInstSets

isAtLeastSPIRVVer(VerToCompareTo) == isAtLeastVer(SPIRVVersion, VerToCompareTo)

\* isAtLeastOpenCLVer without the environment check.
isAtLeastOpenCLVer_NoEnvCheck(VerToCompareTo) ==
    isAtLeastVer(OpenCLVersion, VerToCompareTo)

isAtLeastOpenCLVer(VerToCompareTo) ==
    IF ~isOpenCLEnv THEN FALSE
    ELSE isAtLeastVer(OpenCLVersion, VerToCompareTo)

\* canDirectlyComparePointers comparing against 1.3.
canDirectlyComparePointers_13 == isAtLeastVer(SPIRVVersion, 13)

\* If the SPIR-V version is >= 1.4 we can call OpPtrEqual and OpPtrNotEqual.
canDirectlyComparePointers == isAtLeastVer(SPIRVVersion, 14)

\* getPointerSize (declared in the header).
getPointerSize == PointerSize

\* initAvailableExtInstSets without the clear().
initAvailableExtInstSets_NoClear(prior) ==
    LET withDefault ==
            IF ~isOpenCLEnv THEN prior \cup {"GLSL_std_450"}
            ELSE prior \cup {"OpenCL_std"}
    IN  IF canUseExtension(SPV_AMD_shader_trinary_minmax_extension)
        THEN withDefault \cup {"SPV_AMD_shader_trinary_minmax"}
        ELSE withDefault

\* initAvailableExtInstSets testing another extension than the one that
\* implies the AMD instruction set.
initAvailableExtInstSets_WrongExtension(prior) ==
    LET withDefault ==
            IF ~isOpenCLEnv THEN {"GLSL_std_450"} ELSE {"OpenCL_std"}
    IN  IF canUseExtension("SPV_INTEL_optnone")
        THEN withDefault \cup {"SPV_AMD_shader_trinary_minmax"}
        ELSE withDefault

\* initAvailableExtInstSets: the set it leaves, given the set it finds.
initAvailableExtInstSets(prior) ==
    LET cleared == {}
        withDefault ==
            IF ~isOpenCLEnv THEN cleared \cup {"GLSL_std_450"}
            ELSE cleared \cup {"OpenCL_std"}
    IN  IF canUseExtension(SPV_AMD_shader_trinary_minmax_extension)
        THEN withDefault \cup {"SPV_AMD_shader_trinary_minmax"}
        ELSE withDefault

----------------------------------------------------------------------------
(* The constructor, SPIRVSubtarget::SPIRVSubtarget *)

\* The steps in the order they run.
Steps ==
    <<"Uninitialized", "BaseConstructed", "PointerSizeSet",
      "SPIRVVersionZeroed", "OpenCLVersionZeroed", "InstrInfoConstructed",
      "FeaturesParsed", "VersionsDefaulted", "FrameLoweringConstructed",
      "TLInfoConstructed", "TargetTripleSet", "ExtensionsResolved",
      "InstructionSetsResolved", "GRConstructed", "CallLoweringConstructed",
      "LegalizerConstructed", "RegBankInfoConstructed", "Constructed">>

\* The position of step p in the constructor (0: not a constructor step).
StepNumber ==
    [p \in {Steps[i] : i \in 1..Len(Steps)} |->
        CHOOSE i \in 1..Len(Steps) : Steps[i] = p]

StepIndex(p) == IF p \in DOMAIN StepNumber THEN StepNumber[p] ELSE 0

\* Before the constructor runs: the arguments and the option list are
\* given, the members hold whatever their storage held, the two sets are
\* empty.
Init ==
    /\ pc = "Uninitialized"
    /\ TT \in Triples
    /\ FS \in [spirv : SPIRVVersionRequests, opencl : OpenCLVersionRequests]
    /\ Extensions \in SeqsUpTo(ExtensionsValues, MaxExtList)
    /\ PointerSize \in Indeterminate
    /\ SPIRVVersion \in Indeterminate
    /\ OpenCLVersion \in Indeterminate
    /\ TargetTriple \in IndeterminateTriples
    /\ AvailableExtensions = {}
    /\ AvailableExtInstSets = {}
    /\ built = {}
    /\ handed = {}
    /\ lastQuery = NoQuery
    /\ atEntry = <<{}, {}>>

\* : SPIRVGenSubtargetInfo(TT, CPU, /*TuneCPU=*/CPU, FS)
ConstructBase ==
    /\ pc = "Uninitialized"
    /\ pc' = "BaseConstructed"
    /\ UNCHANGED <<inputs, snapshot, TargetTriple, built, handed, lastQuery, atEntry>>

\* PointerSize(computePointerSize(TT))
SetPointerSize ==
    /\ pc = "BaseConstructed"
    /\ PointerSize' = computePointerSize(TT)
    /\ pc' = "PointerSizeSet"
    /\ UNCHANGED <<inputs, SPIRVVersion, OpenCLVersion, AvailableExtensions,
                   AvailableExtInstSets, TargetTriple, built, handed, lastQuery, atEntry>>

\* SPIRVVersion(0)
ZeroSPIRVVersion ==
    /\ pc = "PointerSizeSet"
    /\ SPIRVVersion' = 0
    /\ pc' = "SPIRVVersionZeroed"
    /\ UNCHANGED <<inputs, PointerSize, OpenCLVersion, AvailableExtensions,
                   AvailableExtInstSets, TargetTriple, built, handed, lastQuery, atEntry>>

\* OpenCLVersion(0)
ZeroOpenCLVersion ==
    /\ pc = "SPIRVVersionZeroed"
    /\ OpenCLVersion' = 0
    /\ pc' = "OpenCLVersionZeroed"
    /\ UNCHANGED <<inputs, PointerSize, SPIRVVersion, AvailableExtensions,
                   AvailableExtInstSets, TargetTriple, built, handed, lastQuery, atEntry>>

\* InstrInfo()
ConstructInstrInfo ==
    /\ pc = "OpenCLVersionZeroed"
    /\ pc' = "InstrInfoConstructed"
    /\ UNCHANGED <<inputs, snapshot, TargetTriple, built, handed, lastQuery, atEntry>>

\* initSubtargetDependencies: ParseSubtargetFeatures(CPU, /*TuneCPU=*/CPU, FS)
ParseSubtargetFeatures ==
    /\ pc = "InstrInfoConstructed"
    /\ SPIRVVersion' = ParsedSPIRVVersion(FS)
    /\ OpenCLVersion' = ParsedOpenCLVersion(FS)
    /\ pc' = "FeaturesParsed"
    /\ UNCHANGED <<inputs, PointerSize, AvailableExtensions,
                   AvailableExtInstSets, TargetTriple, built, handed, lastQuery, atEntry>>

\* initSubtargetDependencies: the two defaults, then return *this
DefaultVersions ==
    /\ pc = "FeaturesParsed"
    /\ SPIRVVersion' = DefaultedSPIRVVersion(SPIRVVersion)
    /\ OpenCLVersion' = DefaultedOpenCLVersion(OpenCLVersion)
    /\ pc' = "VersionsDefaulted"
    /\ UNCHANGED <<inputs, PointerSize, AvailableExtensions,
                   AvailableExtInstSets, TargetTriple, built, handed, lastQuery, atEntry>>

\* FrameLowering(initSubtargetDependencies(CPU, FS)): constructed from the
\* reference initSubtargetDependencies returns
ConstructFrameLowering ==
    /\ pc = "VersionsDefaulted"
    /\ built' = built \cup {"FrameLowering"}
    /\ handed' = handed \cup {"FrameLowering"}
    /\ pc' = "FrameLoweringConstructed"
    /\ UNCHANGED <<inputs, snapshot, TargetTriple, lastQuery, atEntry>>

\* initAvailableExtInstSets() called where initAvailableExtensions() is.
CallInitAvailableExtInstSets_First ==
    /\ pc = "TargetTripleSet"
    /\ AvailableExtInstSets' = initAvailableExtInstSets(AvailableExtInstSets)
    /\ pc' = "InstructionSetsResolved"
    /\ UNCHANGED <<inputs, PointerSize, SPIRVVersion, OpenCLVersion,
                   AvailableExtensions, TargetTriple, built, handed, lastQuery>>
    /\ atEntry' = <<AvailableExtensions, AvailableExtInstSets>>

\* TLInfo(TM, *this) with the legalizer built from *this beside it.
ConstructTLInfo_WithLegalizer ==
    /\ pc = "FrameLoweringConstructed"
    /\ built' = built \cup {"TLInfo", "Legalizer"}
    /\ handed' = handed \cup {"TLInfo", "Legalizer"}
    /\ pc' = "TLInfoConstructed"
    /\ UNCHANGED <<inputs, snapshot, TargetTriple, lastQuery, atEntry>>

\* TLInfo(TM, *this)
ConstructTLInfo ==
    /\ pc = "FrameLoweringConstructed"
    /\ built' = built \cup {"TLInfo"}
    /\ handed' = handed \cup {"TLInfo"}
    /\ pc' = "TLInfoConstructed"
    /\ UNCHANGED <<inputs, snapshot, TargetTriple, lastQuery, atEntry>>

\* TargetTriple(TT)
SetTargetTriple ==
    /\ pc = "TLInfoConstructed"
    /\ TargetTriple' = TT
    /\ pc' = "TargetTripleSet"
    /\ UNCHANGED <<inputs, snapshot, built, handed, lastQuery, atEntry>>

\* The order of initialization is important.
\* initAvailableExtensions();
CallInitAvailableExtensions ==
    /\ pc = "TargetTripleSet"
    /\ AvailableExtensions' = initAvailableExtensions(AvailableExtensions, Extensions)
    /\ pc' = "ExtensionsResolved"
    /\ UNCHANGED <<inputs, PointerSize, SPIRVVersion, OpenCLVersion,
                   AvailableExtInstSets, TargetTriple, built, handed, lastQuery>>
    /\ atEntry' = <<AvailableExtensions, AvailableExtInstSets>>

\* initAvailableExtInstSets();
CallInitAvailableExtInstSets ==
    /\ pc = "ExtensionsResolved"
    /\ AvailableExtInstSets' = initAvailableExtInstSets(AvailableExtInstSets)
    /\ pc' = "InstructionSetsResolved"
    /\ UNCHANGED <<inputs, PointerSize, SPIRVVersion, OpenCLVersion,
                   AvailableExtensions, TargetTriple, built, handed, lastQuery>>
    /\ atEntry' = <<AvailableExtensions, AvailableExtInstSets>>

\* GR = std::make_unique<SPIRVGlobalRegistry>(PointerSize): passed the
\* pointer size by value
ConstructGR ==
    /\ pc = "InstructionSetsResolved"
    /\ built' = built \cup {"GR"}
    /\ pc' = "GRConstructed"
    /\ UNCHANGED <<inputs, snapshot, TargetTriple, handed, lastQuery, atEntry>>

\* CallLoweringInfo = std::make_unique<SPIRVCallLowering>(TLInfo, GR.get())
ConstructCallLowering ==
    /\ pc = "GRConstructed"
    /\ built' = built \cup {"CallLoweringInfo"}
    /\ pc' = "CallLoweringConstructed"
    /\ UNCHANGED <<inputs, snapshot, TargetTriple, handed, lastQuery, atEntry>>

\* Legalizer = std::make_unique<SPIRVLegalizerInfo>(*this)
ConstructLegalizer ==
    /\ pc = "CallLoweringConstructed"
    /\ built' = built \cup {"Legalizer"}
    /\ handed' = handed \cup {"Legalizer"}
    /\ pc' = "LegalizerConstructed"
    /\ UNCHANGED <<inputs, snapshot, TargetTriple, lastQuery, atEntry>>

\* RegBankInfo = std::make_unique<SPIRVRegisterBankInfo>()
ConstructRegBankInfo ==
    /\ pc = "LegalizerConstructed"
    /\ built' = built \cup {"RegBankInfo"}
    /\ pc' = "RegBankInfoConstructed"
    /\ UNCHANGED <<inputs, snapshot, TargetTriple, handed, lastQuery, atEntry>>

\* InstSelector.reset(createSPIRVInstructionSelector(TM, *this, *RegBankInfo.get()))
ConstructInstSelector ==
    /\ pc = "RegBankInfoConstructed"
    /\ built' = built \cup {"InstSelector"}
    /\ handed' = handed \cup {"InstSelector"}
    /\ pc' = "Constructed"
    /\ UNCHANGED <<inputs, snapshot, TargetTriple, lastQuery, atEntry>>

----------------------------------------------------------------------------
(* The queries.  The file calls none of them; they are answered for the   *)
(* collaborators built in the constructor body and for the consumers of   *)
(* the constructed subtarget, that is from the moment both sets are       *)
(* computed.                                                              *)

Queryable == StepIndex(pc) >= StepIndex("InstructionSetsResolved")

QueryGetPointerSize ==
    /\ Queryable
    /\ lastQuery' = [NoQuery EXCEPT !.name = "getPointerSize",
                                    !.size = getPointerSize]
    /\ UNCHANGED <<pc, inputs, snapshot, TargetTriple, built, handed, atEntry>>

QueryIsAtLeastSPIRVVer ==
    /\ Queryable
    /\ \E v \in VersionArgs :
         lastQuery' = [NoQuery EXCEPT !.name = "isAtLeastSPIRVVer", !.ver = v,
                                      !.ret = isAtLeastSPIRVVer(v)]
    /\ UNCHANGED <<pc, inputs, snapshot, TargetTriple, built, handed, atEntry>>

QueryIsAtLeastOpenCLVer ==
    /\ Queryable
    /\ \E v \in VersionArgs :
         lastQuery' = [NoQuery EXCEPT !.name = "isAtLeastOpenCLVer", !.ver = v,
                                      !.ret = isAtLeastOpenCLVer(v)]
    /\ UNCHANGED <<pc, inputs, snapshot, TargetTriple, built, handed, atEntry>>

QueryCanDirectlyComparePointers ==
    /\ Queryable
    /\ lastQuery' = [NoQuery EXCEPT !.name = "canDirectlyComparePointers",
                                    !.ret = canDirectlyComparePointers]
    /\ UNCHANGED <<pc, inputs, snapshot, TargetTriple, built, handed, atEntry>>

QueryCanUseExtension ==
    /\ Queryable
    /\ \E E \in ExtensionIds :
         lastQuery' = [NoQuery EXCEPT !.name = "canUseExtension", !.id = E,
                                      !.ret = canUseExtension(E)]
    /\ UNCHANGED <<pc, inputs, snapshot, TargetTriple, built, handed, atEntry>>

QueryCanUseExtInstSet ==
    /\ Queryable
    /\ \E E \in InstructionSetIds :
         lastQuery' = [NoQuery EXCEPT !.name = "canUseExtInstSet", !.id = E,
                                      !.ret = canUseExtInstSet(E)]
    /\ UNCHANGED <<pc, inputs, snapshot, TargetTriple, built, handed, atEntry>>

Construct ==
    \/ ConstructBase
    \/ SetPointerSize
    \/ ZeroSPIRVVersion
    \/ ZeroOpenCLVersion
    \/ ConstructInstrInfo
    \/ ParseSubtargetFeatures
    \/ DefaultVersions
    \/ ConstructFrameLowering
    \/ ConstructTLInfo
    \/ SetTargetTriple
    \/ CallInitAvailableExtensions
    \/ CallInitAvailableExtInstSets
    \/ ConstructGR
    \/ ConstructCallLowering
    \/ ConstructLegalizer
    \/ ConstructRegBankInfo
    \/ ConstructInstSelector

Query ==
    \/ QueryGetPointerSize
    \/ QueryIsAtLeastSPIRVVer
    \/ QueryIsAtLeastOpenCLVer
    \/ QueryCanDirectlyComparePointers
    \/ QueryCanUseExtension
    \/ QueryCanUseExtInstSet

Next == Construct \/ Query

Spec == Init /\ [][Next]_vars

----------------------------------------------------------------------------
(* The two init methods taken alone: each is applied to a subtarget whose  *)
(* two sets hold anything, in any order and any number of times, so that   *)
(* what a method leaves is seen apart from what the constructor gives it.  *)

MethodSteps ==
    {"MethodEntry", "initAvailableExtensionsReturned",
     "initAvailableExtInstSetsReturned"}

MethodInit ==
    /\ pc = "MethodEntry"
    /\ TT \in Triples
    /\ FS = [spirv |-> 0, opencl |-> 0]
    /\ Extensions \in SeqsUpTo(ExtensionsValues, MaxExtList)
    /\ PointerSize = computePointerSize(TT)
    /\ SPIRVVersion = DefaultedSPIRVVersion(ParsedSPIRVVersion(FS))
    /\ OpenCLVersion = DefaultedOpenCLVersion(ParsedOpenCLVersion(FS))
    /\ TargetTriple = TT
    /\ AvailableExtensions \in SUBSET ExtensionIds
    /\ AvailableExtInstSets \in SUBSET InstructionSetIds
    /\ built = {"FrameLowering", "TLInfo"}
    /\ handed = {"FrameLowering", "TLInfo"}
    /\ lastQuery = NoQuery
    /\ atEntry = <<AvailableExtensions, AvailableExtInstSets>>

MethodInitAvailableExtensions ==
    /\ pc \in MethodSteps
    /\ AvailableExtensions' = initAvailableExtensions(AvailableExtensions, Extensions)
    /\ atEntry' = <<AvailableExtensions, AvailableExtInstSets>>
    /\ pc' = "initAvailableExtensionsReturned"
    /\ UNCHANGED <<inputs, PointerSize, SPIRVVersion, OpenCLVersion,
                   AvailableExtInstSets, TargetTriple, built, handed, lastQuery>>

MethodInitAvailableExtInstSets ==
    /\ pc \in MethodSteps
    /\ AvailableExtInstSets' = initAvailableExtInstSets(AvailableExtInstSets)
    /\ atEntry' = <<AvailableExtensions, AvailableExtInstSets>>
    /\ pc' = "initAvailableExtInstSetsReturned"
    /\ UNCHANGED <<inputs, PointerSize, SPIRVVersion, OpenCLVersion,
                   AvailableExtensions, TargetTriple, built, handed, lastQuery>>

MethodNext == MethodInitAvailableExtensions \/ MethodInitAvailableExtInstSets

\* The constructor and the methods taken alone, together.
MethodSpec == (Init \/ MethodInit) /\ [][Next \/ MethodNext]_vars

----------------------------------------------------------------------------
(* Vocabulary of the properties *)

\* The ids that occur in a list.
Range(list) == {list[i] : i \in DOMAIN list}

\* The phase of the resolution a constructor step belongs to:
\* 1 Uninitialized, 2 PointerWidthSet, 3 FeaturesParsed, 4 VersionsDefaulted,
\* 5 ExtensionsResolved, 6 InstructionSetsResolved.
PhaseOfIndex ==
    [i \in 0..Len(Steps) |->
        IF i < StepNumber["PointerSizeSet"] THEN 1
        ELSE IF i < StepNumber["FeaturesParsed"] THEN 2
        ELSE IF i < StepNumber["VersionsDefaulted"] THEN 3
        ELSE IF i < StepNumber["ExtensionsResolved"] THEN 4
        ELSE IF i < StepNumber["InstructionSetsResolved"] THEN 5
        ELSE 6]

Phase(p) == PhaseOfIndex[StepIndex(p)]

Constructed == pc = "Constructed"

\* initAvailableExtensions has returned (in the constructor, or called alone).
ExtensionsRan ==
    \/ pc = "initAvailableExtensionsReturned"
    \/ StepIndex(pc) >= StepIndex("ExtensionsResolved")

\* initAvailableExtInstSets has returned (in the constructor, or called alone).
ExtInstSetsRan ==
    \/ pc = "initAvailableExtInstSetsReturned"
    \/ StepIndex(pc) >= StepIndex("InstructionSetsResolved")

----------------------------------------------------------------------------
(* Properties *)

\* C1 as stated: when the feature string requests no SPIR-V version, the
\* constructed subtarget stores 14 and isAtLeastSPIRVVer(x) is true for
\* every x, also for x > 14.
C1_AsStated ==
    (Constructed /\ FS.spirv = 0) =>
        /\ SPIRVVersion = 14
        /\ \A x \in VersionArgs : isAtLeastSPIRVVer(x)

\* C1 amended: when the feature string requests no SPIR-V version, the
\* constructed subtarget stores 14, and isAtLeastSPIRVVer(x) is true exactly
\* for the x <= 14 (it is false for every x > 14).
C1_DefaultedVersionComparesAs14 ==
    (Constructed /\ FS.spirv = 0) =>
        /\ SPIRVVersion = 14
        /\ \A x \in VersionArgs : isAtLeastSPIRVVer(x) <=> (x <= 14)
        /\ lastQuery.name = "isAtLeastSPIRVVer" =>
               (lastQuery.ret <=> (lastQuery.ver <= 14))

C1_Witness ==
    /\ Constructed
    /\ FS.spirv = 0
    /\ lastQuery.name = "isAtLeastSPIRVVer"
    /\ lastQuery.ver = 15
    /\ ~lastQuery.ret

\* C2: when the feature string requests the SPIR-V version k > 0, the
\* defaulting leaves the stored version k, and on the constructed
\* subtarget isAtLeastSPIRVVer(x) is true iff k >= x, for every x.
C2_ExplicitVersionKept ==
    FS.spirv > 0 =>
        /\ StepIndex(pc) >= StepIndex("FeaturesParsed") => SPIRVVersion = FS.spirv
        /\ Constructed =>
             /\ \A x \in VersionArgs : isAtLeastSPIRVVer(x) <=> (FS.spirv >= x)
             /\ lastQuery.name = "isAtLeastSPIRVVer" =>
                    (lastQuery.ret <=> (FS.spirv >= lastQuery.ver))

C2_Witness ==
    /\ Constructed
    /\ FS.spirv = 13
    /\ lastQuery.name = "isAtLeastSPIRVVer"
    /\ lastQuery.ver = 13
    /\ lastQuery.ret

\* C3: once initAvailableExtensions has returned, whatever the set held
\* when it was called, no extension can be used when the environment is not
\* OpenCL, and when it is OpenCL canUseExtension(id) is true exactly for the
\* ids that occur in the spirv-extensions list.
C3_ExtensionsAreTheListInOpenCLOnly ==
    ExtensionsRan =>
        \A id \in ExtensionIds :
            canUseExtension(id) <=> (TT.env = "OpenCL" /\ id \in Range(Extensions))

C3_Witness ==
    /\ pc = "initAvailableExtensionsReturned"
    /\ TT.env = "OpenCL"
    /\ Len(Extensions) = 2
    /\ Extensions[1] = Extensions[2]
    /\ SPV_AMD_shader_trinary_minmax_extension \in atEntry[1]
    /\ Cardinality(AvailableExtensions) = 1

\* C4: once initAvailableExtInstSets has returned, the set holds exactly
\* one default (GLSL_std_450 when the environment is not OpenCL, OpenCL_std
\* when it is, never both), holds SPV_AMD_shader_trinary_minmax iff
\* SPV_AMD_shader_trinary_minmax_extension is an available extension, and
\* holds nothing else.
C4_ExtInstSetsAreDefaultPlusImplied ==
    ExtInstSetsRan =>
        /\ Cardinality(AvailableExtInstSets \cap {"GLSL_std_450", "OpenCL_std"}) = 1
        /\ canUseExtInstSet("GLSL_std_450") <=> (TT.env # "OpenCL")
        /\ canUseExtInstSet("OpenCL_std") <=> (TT.env = "OpenCL")
        /\ canUseExtInstSet("SPV_AMD_shader_trinary_minmax") <=>
               (SPV_AMD_shader_trinary_minmax_extension \in AvailableExtensions)
        /\ AvailableExtInstSets \subseteq
               {"GLSL_std_450", "OpenCL_std", "SPV_AMD_shader_trinary_minmax"}

C4_Witness ==
    /\ pc = "initAvailableExtInstSetsReturned"
    /\ TT.env = "OpenCL"
    /\ "GLSL_std_450" \in atEntry[2]
    /\ AvailableExtInstSets = {"OpenCL_std", "SPV_AMD_shader_trinary_minmax"}

\* C5: isAtLeastOpenCLVer(x) is false for every x when the environment is
\* not OpenCL, whatever version is stored; when it is OpenCL it is true iff
\* the stored OpenCL version (22 when the feature string requests none,
\* the requested one otherwise) is 0 or is >= x.
C5_OpenCLVersionOnlyInOpenCLEnv ==
    LET stored == IF FS.opencl = 0 THEN 22 ELSE FS.opencl
        expected(x) == TT.env = "OpenCL" /\ (stored = 0 \/ stored >= x)
    IN  Queryable =>
            /\ OpenCLVersion = stored
            /\ \A x \in VersionArgs : isAtLeastOpenCLVer(x) <=> expected(x)
            /\ lastQuery.name = "isAtLeastOpenCLVer" =>
                   (lastQuery.ret <=> expected(lastQuery.ver))

C5_Witness ==
    /\ Constructed
    /\ TT.env # "OpenCL"
    /\ FS.opencl = 30
    /\ lastQuery.name = "isAtLeastOpenCLVer"
    /\ lastQuery.ver = 22
    /\ ~lastQuery.ret

\* C6: in every state canDirectlyComparePointers() equals
\* isAtLeastSPIRVVer(14); on the constructed subtarget it is true when the
\* feature string requests the SPIR-V version 14 or higher or none, and
\* false when it requests a lower one (10, 13).
C6_DirectComparisonFrom14 ==
    /\ canDirectlyComparePointers <=> isAtLeastSPIRVVer(14)
    /\ Constructed =>
         /\ canDirectlyComparePointers <=> (FS.spirv = 0 \/ FS.spirv >= 14)
         /\ lastQuery.name = "canDirectlyComparePointers" =>
                (lastQuery.ret <=> (FS.spirv = 0 \/ FS.spirv >= 14))

C6_Witness ==
    /\ Constructed
    /\ FS.spirv = 13
    /\ lastQuery.name = "canDirectlyComparePointers"
    /\ ~lastQuery.ret

\* C7: from the step that sets it on, PointerSize is 64 if the architecture
\* of the triple is spirv64 and 32 for every other one (spirv32, and the
\* logical spirv), and no later step or query changes it.
C7_PointerSizeFixedFromTriple ==
    /\ [](StepIndex(pc) >= StepIndex("PointerSizeSet") =>
            PointerSize = (IF TT.arch = "spirv64" THEN 64 ELSE 32))
    /\ [][StepIndex(pc) >= StepIndex("PointerSizeSet") =>
            PointerSize' = PointerSize]_vars

C7_Witness ==
    /\ Constructed
    /\ TT.arch = "spirv"
    /\ PointerSize = 32
    /\ lastQuery.name = "getPointerSize"
    /\ lastQuery.size = 32

\* C8: the constructor goes through the phases Uninitialized,
\* PointerWidthSet, FeaturesParsed, VersionsDefaulted, ExtensionsResolved,
\* InstructionSetsResolved one by one in this order, never back and never
\* skipping one, and has gone through all of them when it returns; a query
\* changes neither the constructor's position nor any of the five snapshot
\* fields.
C8_PhasesInOrderQueriesPure ==
    /\ [][Phase(pc') = Phase(pc) \/ Phase(pc') = Phase(pc) + 1]_vars
    /\ [][lastQuery' # lastQuery =>
            (Phase(pc) = 6 /\ pc' = pc /\ snapshot' = snapshot)]_vars
    /\ [](pc = "Uninitialized" => Phase(pc) = 1)
    /\ [](Constructed => Phase(pc) = 6)

C8_Witness ==
    /\ Constructed
    /\ lastQuery.name = "canUseExtension"
    /\ lastQuery.ret

\* C9 as stated: no collaborator is handed a reference to the subtarget
\* before initAvailableExtensions and initAvailableExtInstSets have both run.
C9_AsStated ==
    handed # {} => StepIndex(pc) >= StepIndex("InstructionSetsResolved")

\* C9 amended: the frame lowering and the target lowering are handed a
\* reference to the subtarget in the member initializer list, after the
\* versions are defaulted but before initAvailableExtensions and
\* initAvailableExtInstSets run; the global registry, the call lowering,
\* the legalizer, the register-bank info and the instruction selector are
\* built only after both have run, and the subtarget is complete only then.
C9_BodyCollaboratorsAfterResolution ==
    /\ handed \subseteq {"FrameLowering", "TLInfo", "Legalizer", "InstSelector"}
    /\ handed \subseteq built
    /\ handed # {} => StepIndex(pc) >= StepIndex("VersionsDefaulted")
    /\ built \cap {"GR", "CallLoweringInfo", "Legalizer", "RegBankInfo",
                   "InstSelector"} # {} =>
           StepIndex(pc) >= StepIndex("InstructionSetsResolved")
    /\ StepIndex(pc) >= StepIndex("TLInfoConstructed") =>
           {"FrameLowering", "TLInfo"} \subseteq handed
    /\ Constructed => built = Collaborators

C9_Witness ==
    /\ pc = "TLInfoConstructed"
    /\ handed = {"FrameLowering", "TLInfo"}
    /\ TT.env = "OpenCL"
    /\ Extensions # <<>>
    /\ AvailableExtensions = {}
    /\ AvailableExtInstSets = {}

\* C10: with the spirv-extensions list made of the values the option
\* accepts, from the moment the constructor has computed both sets
\* canUseExtInstSet(SPV_AMD_shader_trinary_minmax) is false and the
\* available instruction sets are exactly the one default of the
\* environment.
C10_OnlyTheDefaultInstSet ==
    (Queryable /\ Range(Extensions) \subseteq ExtensionsValues) =>
        /\ ~canUseExtInstSet("SPV_AMD_shader_trinary_minmax")
        /\ AvailableExtInstSets =
               {IF TT.env = "OpenCL" THEN "OpenCL_std" ELSE "GLSL_std_450"}
        /\ (lastQuery.name = "canUseExtInstSet"
               /\ lastQuery.id = "SPV_AMD_shader_trinary_minmax") => ~lastQuery.ret

C10_Witness ==
    /\ Constructed
    /\ TT.env = "OpenCL"
    /\ "SPV_INTEL_optnone" \in AvailableExtensions
    /\ lastQuery.name = "canUseExtInstSet"
    /\ lastQuery.id = "SPV_AMD_shader_trinary_minmax"
    /\ ~lastQuery.ret

====
